---- MODULE Spec2Model ----
(***************************************************************************)
(* Model of pde.grids.boundaries.axes.Boundaries: the list of per-axis     *)
(* boundary pairs of a grid, its validating constructor, the normalising   *)
(* class method from_data, and the operations defined on the collection.   *)
(*                                                                         *)
(* Python sequences are 0-based, TLA+ sequences 1-based: the pair stored   *)
(* at position i of a TLA+ sequence is the pair at Python index i-1, and   *)
(* the field `axis` of a pair keeps the 0-based Python value.              *)
(***************************************************************************)
EXTENDS Integers, Sequences, FiniteSets, TLC

\* ------------------------------------------------------------------ bounds
MaxAxes == 2     \* grids have 1..MaxAxes axes
MaxObjs == 2     \* Boundaries objects alive at once

MaxLen == MaxAxes + 1          \* longest sequence handed to from_data
Ranks == {0, 1}                \* scalar and vector fields

\* ------------------------------------------------------------------ grids
\* A grid object: `id` is its identity, `periodic` its content.  Two grids
\* with different id and the same periodic are equal but not the same object.
GridIds == {"a", "b"}
BoolSeqs == UNION {[1..n -> BOOLEAN] : n \in 1..MaxAxes}
Grids == {[id |-> c, periodic |-> p] : c \in GridIds, p \in BoolSeqs}
NoGrid == [id |-> "none", periodic |-> <<>>]

num_axes(grid) == Len(grid.periodic)

\* grid == other for grids (GridBase.__eq__): equality of content
GridEq(g, h) == g.periodic = h.periodic

\* ------------------------------------------------------------------ pairs
\* One BoundaryPair / BoundaryPeriodic: the boundary conditions of one axis.
BoundaryPair(grid, axis, periodic, low, high, rank) ==
    [grid |-> grid, axis |-> axis, periodic |-> periodic,
     low |-> low, high |-> high, rank |-> rank]

NoPair == BoundaryPair(NoGrid, 0, FALSE, "", "", 0)

NonPeriodicKinds == {"neumann", "dirichlet", "curvature"}

\* the specification of one axis: a keyword, a mapping {"type": s} or a
\* (low, high) tuple of keywords
StrSpec(s) == [t |-> "str", s |-> s, lo |-> "", hi |-> ""]
DictSpec(s) == [t |-> "dict", s |-> s, lo |-> "", hi |-> ""]
TupleSpec(lo, hi) == [t |-> "tuple", s |-> "", lo |-> lo, hi |-> hi]
BadSpec == [t |-> "bad", s |-> "", lo |-> "", hi |-> ""]

\* get_boundary_axis(grid, axis, data, rank): the pair of one axis from its
\* specification.  The pair is periodic exactly when the data says so; the
\* grid's own periodicity is checked later, by Boundaries.__init__.
get_boundary_axis(grid, axis, data, rank) ==
    IF data.t \in {"str", "dict"} /\ data.s = "periodic"
    THEN [ok |-> TRUE,
          pair |-> BoundaryPair(grid, axis, TRUE, "periodic", "periodic", rank)]
    ELSE IF data.t \in {"str", "dict"} /\ data.s \in NonPeriodicKinds
    THEN [ok |-> TRUE,
          pair |-> BoundaryPair(grid, axis, FALSE, data.s, data.s, rank)]
    ELSE IF data.t = "tuple" /\ data.lo = "periodic" /\ data.hi = "periodic"
    THEN [ok |-> TRUE,
          pair |-> BoundaryPair(grid, axis, TRUE, "periodic", "periodic", rank)]
    ELSE IF data.t = "tuple" /\ data.lo \in NonPeriodicKinds
                             /\ data.hi \in NonPeriodicKinds
    THEN [ok |-> TRUE,
          pair |-> BoundaryPair(grid, axis, FALSE, data.lo, data.hi, rank)]
    ELSE [ok |-> FALSE, pair |-> NoPair]

\* pair == other (BoundaryPair.__eq__): same content on equal grids
PairEq(p, q) ==
    /\ GridEq(p.grid, q.grid)
    /\ p.axis = q.axis
    /\ p.periodic = q.periodic
    /\ p.low = q.low
    /\ p.high = q.high
    /\ p.rank = q.rank

\* pair.copy(): the value data is duplicated, the grid reference is shared
pair_copy(p) == BoundaryPair(p.grid, p.axis, p.periodic, p.low, p.high, p.rank)

\* pair.check_value_rank(rank): TRUE when the stored values have that rank
pair_check_value_rank(p, rank) == p.rank = rank

\* pair.extract_component(*indices), for n indices: values of rank - n
pair_extract_component(p, n) == [p EXCEPT !.rank = p.rank - n]

\* ------------------------------------------------- Boundaries.__init__
\* The outcome of a call: kind is "ok" or the name of the exception raised.
Outcome(kind, msg, grid, pairs) ==
    [kind |-> kind, msg |-> msg, grid |-> grid, pairs |-> pairs]

Raise(kind, msg) == Outcome(kind, msg, NoGrid, <<>>)

\* grid_mismatch with a fault: only the number of axes of the grids is compared
grid_mismatch_axes(boundary, grid) == num_axes(boundary.grid) # num_axes(grid)

\* the three tests made on each pair by the consistency loop of __init__
grid_mismatch(boundary, grid) == ~GridEq(boundary.grid, grid)

axis_mismatch(boundary, axis) == boundary.axis # axis

\* periodic_mismatch with a fault: every pair is held against the first axis
periodic_mismatch_first_axis(boundary, grid, i) ==
    boundary.periodic # grid.periodic[1]

periodic_mismatch(boundary, grid, i) == boundary.periodic # grid.periodic[i]

\* the consistency loop of __init__, from position i on
RECURSIVE check_consistency(_, _, _)
check_consistency(boundaries, grid, i) ==
    IF i > Len(boundaries)
    THEN Outcome("ok", "", grid, boundaries)
    ELSE LET boundary == boundaries[i]
             axis == i - 1
         IN  IF grid_mismatch(boundary, grid)
             THEN Raise("BCDataError", "grid")
             ELSE IF axis_mismatch(boundary, axis)
             THEN Raise("BCDataError", "order")
             ELSE IF periodic_mismatch(boundary, grid, i)
             THEN Raise("PeriodicityError", "periodicity")
             ELSE check_consistency(boundaries, grid, i + 1)

\* check_dimension with a fault: only a list that is too long is refused
check_dimension_longer(boundaries, grid) == Len(boundaries) > num_axes(grid)

\* the dimension check of __init__
check_dimension(boundaries, grid) == Len(boundaries) # num_axes(grid)

Boundaries_init(boundaries) ==
    IF Len(boundaries) = 0
    THEN Raise("BCDataError", "empty")
    ELSE LET grid == boundaries[1].grid
         IN  IF check_dimension(boundaries, grid)
             THEN Raise("BCDataError", "num_axes")
             ELSE check_consistency(boundaries, grid, 1)

\* ------------------------------------------------- Boundaries.from_data
\* The data handed to from_data: a Boundaries object (o is its place in the
\* heap), a string, a mapping {"type": s}, a sequence q of per-axis
\* specifications, or a value that is none of these (a number).
ObjData(o) == [t |-> "Boundaries", s |-> "", q |-> <<>>, o |-> o]
StrData(s) == [t |-> "str", s |-> s, q |-> <<>>, o |-> 0]
DictData(s) == [t |-> "dict", s |-> s, q |-> <<>>, o |-> 0]
SeqData(q) == [t |-> "seq", s |-> "", q |-> q, o |-> 0]
OtherData == [t |-> "other", s |-> "", q |-> <<>>, o |-> 0]
NoData == [t |-> "none", s |-> "", q |-> <<>>, o |-> 0]

\* natural_list with a fault: fields of rank above 0 get Dirichlet conditions
natural_list_by_rank(grid, rank, kind) ==
    [i \in 1..Len(grid.periodic) |->
        StrSpec(IF grid.periodic[i] THEN "periodic"
                ELSE IF rank = 0 THEN kind
                ELSE "dirichlet")]

\* the keyword list built for one of the three families of sentinel keywords
natural_list(grid, rank, kind) ==
    [i \in 1..Len(grid.periodic) |->
        StrSpec(IF grid.periodic[i] THEN "periodic"
                ELSE IF rank = 0 THEN kind
                ELSE kind)]

\* "convert natural boundary conditions if present"
convert_natural(grid, boundaries, rank) ==
    IF boundaries.t = "str" /\ boundaries.s \in {"natural", "auto_periodic_neumann"}
    THEN SeqData(natural_list(grid, rank, "neumann"))
    ELSE IF boundaries.t = "str" /\ boundaries.s = "auto_periodic_dirichlet"
    THEN SeqData(natural_list(grid, rank, "dirichlet"))
    ELSE IF boundaries.t = "str" /\ boundaries.s = "auto_periodic_curvature"
    THEN SeqData(natural_list(grid, rank, "curvature"))
    ELSE boundaries

\* a string or mapping, seen as the specification of one axis
axis_spec(boundaries) ==
    IF boundaries.t = "str" THEN StrSpec(boundaries.s) ELSE DictSpec(boundaries.s)

\* a sequence of two entries, seen as the (low, high) specification of one axis
low_high_spec(boundaries) ==
    IF boundaries.q[1].t = "str" /\ boundaries.q[2].t = "str"
    THEN TupleSpec(boundaries.q[1].s, boundaries.q[2].s)
    ELSE BadSpec

\* hasattr(boundaries, "__len__")
has_len(boundaries) == boundaries.t \in {"str", "dict", "seq", "Boundaries"}

\* one_per_axis with a fault: a sequence at least as long as the axes passes
one_per_axis_at_least(grid, boundaries) == Len(boundaries.q) >= num_axes(grid)

\* the test that selects the one-entry-per-axis reading of a sequence
one_per_axis(grid, boundaries) == Len(boundaries.q) = num_axes(grid)

\* the test that selects the (low, high) shorthand
two_sides(grid, boundaries) == num_axes(grid) = 1 /\ Len(boundaries.q) = 2

\* "create the list of BoundaryAxis objects": the rule that applied and the
\* result of get_boundary_axis for each axis; rule "none" is bcs = None
make_bcs(grid, boundaries, rank) ==
    IF boundaries.t \in {"str", "dict"}
    THEN [rule |-> "all",
          bcs |-> [i \in 1..num_axes(grid) |->
                     get_boundary_axis(grid, i - 1, axis_spec(boundaries), rank)]]
    ELSE IF has_len(boundaries)
    THEN IF one_per_axis(grid, boundaries)
         THEN [rule |-> "per_axis",
               bcs |-> [i \in 1..Len(boundaries.q) |->
                          get_boundary_axis(grid, i - 1, boundaries.q[i], rank)]]
         ELSE IF two_sides(grid, boundaries)
         THEN [rule |-> "two_sides",
               bcs |-> <<get_boundary_axis(grid, 0, low_high_spec(boundaries), rank)>>]
         ELSE [rule |-> "none", bcs |-> <<>>]
    ELSE [rule |-> "none", bcs |-> <<>>]

\* Boundaries.check_value_rank(rank) on the pairs of an object
check_value_rank(pairs, rank) ==
    \A i \in 1..Len(pairs) : pair_check_value_rank(pairs[i], rank)

\* grid_assert_fails with a fault: the assert asks for the same grid object
grid_assert_is(b, grid) == b.grid # grid

\* the failure of the assert on the grid of a Boundaries object
grid_assert_fails(b, grid) == ~GridEq(b.grid, grid)

\* The result of from_data: the outcome, the rule that applied, the keyword
\* list a sentinel was converted to, and ret: the heap place of the object
\* handed back as it is (0 when the object is new or the call failed).
FromDataResult(out, rule, conv, ret) ==
    [out |-> out, rule |-> rule, conv |-> conv, ret |-> ret]

\* already_boundaries with a fault: a copy of the object is handed back
already_boundaries_copy(objs, grid, o, rank) ==
    LET b == objs[o]
    IN  IF grid_assert_fails(b, grid)
        THEN FromDataResult(Raise("AssertionError", "grid"), "same", <<>>, 0)
        ELSE IF ~check_value_rank(b.pairs, rank)
        THEN FromDataResult(Raise("RankError", "rank"), "same", <<>>, 0)
        ELSE FromDataResult(Boundaries_init(b.pairs), "same", <<>>, 0)

\* "check whether this is already the correct class": boundaries is the
\* Boundaries object at place o
already_boundaries(objs, grid, o, rank) ==
    LET b == objs[o]
    IN  IF grid_assert_fails(b, grid)
        THEN FromDataResult(Raise("AssertionError", "grid"), "same", <<>>, 0)
        ELSE IF ~check_value_rank(b.pairs, rank)
        THEN FromDataResult(Raise("RankError", "rank"), "same", <<>>, 0)
        ELSE FromDataResult(Outcome("ok", "", b.grid, b.pairs), "same", <<>>, o)

from_data(objs, grid, boundaries, rank) ==
    IF boundaries.t = "Boundaries"
    THEN already_boundaries(objs, grid, boundaries.o, rank)
    ELSE LET converted == convert_natural(grid, boundaries, rank)
             conv == IF converted = boundaries THEN <<>>
                     ELSE [i \in 1..Len(converted.q) |-> converted.q[i].s]
             made == make_bcs(grid, converted, rank)
         IN  IF made.rule = "none"
             THEN FromDataResult(Raise("BCDataError", "format"), made.rule, conv, 0)
             ELSE IF \E i \in 1..Len(made.bcs) : ~made.bcs[i].ok
             THEN FromDataResult(Raise("BCDataError", "keyword"), made.rule, conv, 0)
             ELSE FromDataResult(
                      Boundaries_init([i \in 1..Len(made.bcs) |-> made.bcs[i].pair]),
                      made.rule, conv, 0)

\* ------------------------------------------------- operations on a Boundaries
\* list.__eq__ on two lists of pairs
list_eq(p, q) ==
    /\ Len(p) = Len(q)
    /\ \A i \in 1..Len(p) : PairEq(p[i], q[i])

\* Boundaries.__eq__(self, other)
Boundaries_eq(b, c) == list_eq(b.pairs, c.pairs) /\ GridEq(b.grid, c.grid)

\* Boundaries.copy()
copy(b) == Boundaries_init([i \in 1..Len(b.pairs) |-> pair_copy(b.pairs[i])])

\* Boundaries.extract_component(*indices), for n indices
extract_component(b, n) ==
    Boundaries_init([i \in 1..Len(b.pairs) |-> pair_extract_component(b.pairs[i], n)])

\* The array data_full is followed through the ghost layers written to it:
\* a sequence of axes, in the order of the writes.
\* pair.set_ghost_cells(data_full): writes the ghost layer of the pair's axis
pair_set_ghost_cells(p, data_full) == Append(data_full, p.axis)

\* pair.make_ghost_cell_setter(): a routine that writes that same layer
pair_make_ghost_cell_setter(p) == p.axis

\* a call f(data_full, args=args) of a routine made by a pair
call_setter(f, data_full) == Append(data_full, f)

\* Boundaries.set_ghost_cells: the loop over self, from position i on
RECURSIVE set_ghost_cells(_, _, _)
set_ghost_cells(pairs, i, data_full) ==
    IF i > Len(pairs)
    THEN data_full
    ELSE set_ghost_cells(pairs, i + 1, pair_set_ghost_cells(pairs[i], data_full))

\* the closure `wrap` made by chain: it holds first and inner, where inner
\* is <<>> for None and <<w>> for an earlier closure w
wrap(first, inner) == [first |-> first, inner |-> inner]

\* call_wrap with a fault: first is called before inner
RECURSIVE call_wrap_first(_, _)
call_wrap_first(w, data_full) ==
    IF w.inner = <<>>
    THEN call_setter(w.first, data_full)
    ELSE call_wrap_first(w.inner[1], call_setter(w.first, data_full))

\* a call wrap(data_full, args=args) of a closure
RECURSIVE call_wrap(_, _)
call_wrap(w, data_full) ==
    IF w.inner = <<>>
    THEN call_setter(w.first, data_full)
    ELSE call_setter(w.first, call_wrap(w.inner[1], data_full))

\* chain(fs, inner) of make_ghost_cell_setter
RECURSIVE chain(_, _)
chain(fs, inner) ==
    LET first == Head(fs)
        rest == Tail(fs)
        w == wrap(first, inner)
    IN  IF rest # <<>> THEN chain(rest, <<w>>) ELSE w

\* Boundaries.make_ghost_cell_setter()
make_ghost_cell_setter(pairs) ==
    chain([i \in 1..Len(pairs) |-> pair_make_ghost_cell_setter(pairs[i])], <<>>)

\* ------------------------------------------------------------------ inputs
Keywords == {"natural", "auto_periodic_neumann", "auto_periodic_dirichlet",
             "auto_periodic_curvature", "periodic", "neumann", "bogus"}

ElemSpecs == {StrSpec("periodic"), StrSpec("neumann"), StrSpec("dirichlet"),
              StrSpec("bogus"), TupleSpec("dirichlet", "neumann")}

RawData ==
    {StrData(s) : s \in Keywords}
    \cup {DictData(s) : s \in {"neumann", "bogus"}}
    \cup {SeqData(q) : q \in UNION {[1..n -> ElemSpecs] : n \in 0..MaxLen}}
    \cup {OtherData}

\* a second grid object equal to g, a grid that differs from g in the
\* periodicity of an axis, and one that differs in the number of axes
twin(g) == [g EXCEPT !.id = CHOOSE c \in GridIds : c # g.id]
flipped(g) == [g EXCEPT !.periodic[1] = ~@]
resized(g) == [g EXCEPT !.periodic = IF Len(@) > 1 THEN Tail(@) ELSE @ \o <<FALSE>>]

\* the grids from_data is called with: any grid for raw data; for a
\* Boundaries object its own grid, an equal grid object, a grid of other
\* periodicity and a grid with another number of axes
GridArgs(objs, boundaries) ==
    IF boundaries.t = "Boundaries"
    THEN LET g == objs[boundaries.o].grid
         IN  {g, twin(g), flipped(g), resized(g)}
    ELSE Grids

\* the pairs handed to the constructor directly
given_pair(h, a, p) ==
    BoundaryPair(h, a, p, IF p THEN "periodic" ELSE "neumann",
                 IF p THEN "periodic" ELSE "neumann", 0)

CtorPairs(g) ==
    {given_pair(h, a, p) : h \in {g, twin(g), flipped(g)},
                           a \in 0..(MaxAxes - 1), p \in BOOLEAN}

CtorInputs ==
    {<<>>} \cup
    UNION {{<<f>> \o r : f \in {given_pair(g, a, p) : a \in 0..(MaxAxes - 1),
                                                     p \in BOOLEAN},
                         r \in [1..(n - 1) -> CtorPairs(g)]}
           : g \in Grids, n \in 1..MaxAxes}

\* ------------------------------------------------------------------ state
VARIABLES
    heap,   \* the Boundaries objects alive: heap[o] = [grid, pairs]
    call,   \* the construction call that opened the session
    made,   \* what that call gave
    last    \* the last operation on an object of the heap, and its result

vars == <<heap, call, made, last>>

NoCall == [op |-> "none", grid |-> NoGrid, data |-> NoData, rank |-> 0,
           pairs |-> <<>>]
NoMade == [kind |-> "", msg |-> "", rule |-> "", conv |-> <<>>, obj |-> 0]
NoLast == [op |-> "none", obj |-> 0, other |-> 0, grid |-> NoGrid, rank |-> 0,
           kind |-> "", ret |-> 0, eq |-> FALSE, fn |-> <<>>, log |-> <<>>]

Object(out) == [grid |-> out.grid, pairs |-> out.pairs]

Init ==
    /\ heap = <<>>
    /\ call = NoCall
    /\ made = NoMade
    /\ last = NoLast

\* Boundaries.from_data(grid, boundaries, rank)
FromData(grid, boundaries, rank) ==
    /\ IF boundaries.t = "Boundaries"
       THEN boundaries.o \in 1..Len(heap)
       ELSE call.op = "none"
    /\ LET r == from_data(heap, grid, boundaries, rank)
           new == r.out.kind = "ok" /\ r.ret = 0
       IN  /\ heap' = IF new THEN Append(heap, Object(r.out)) ELSE heap
           /\ IF call.op = "none"
              THEN /\ call' = [NoCall EXCEPT !.op = "from_data", !.grid = grid,
                                             !.data = boundaries, !.rank = rank]
                   /\ made' = [kind |-> r.out.kind, msg |-> r.out.msg,
                               rule |-> r.rule, conv |-> r.conv,
                               obj |-> IF new THEN Len(heap) + 1 ELSE 0]
                   /\ last' = last
              ELSE /\ UNCHANGED <<call, made>>
                   /\ last' = [NoLast EXCEPT !.op = "from_data",
                                             !.obj = boundaries.o,
                                             !.grid = grid, !.rank = rank,
                                             !.kind = r.out.kind, !.ret = r.ret]

\* Boundaries(boundaries)
Construct(boundaries) ==
    /\ call.op = "none"
    /\ LET out == Boundaries_init(boundaries)
       IN  /\ heap' = IF out.kind = "ok" THEN Append(heap, Object(out)) ELSE heap
           /\ call' = [NoCall EXCEPT !.op = "init", !.pairs = boundaries]
           /\ made' = [kind |-> out.kind, msg |-> out.msg, rule |-> "",
                       conv |-> <<>>,
                       obj |-> IF out.kind = "ok" THEN Len(heap) + 1 ELSE 0]
           /\ last' = last

\* Copy with a fault: copy() hands back the object itself
CopySelf(o) ==
    /\ Len(heap) < MaxObjs
    /\ heap' = heap
    /\ last' = [NoLast EXCEPT !.op = "copy", !.obj = o, !.kind = "ok", !.ret = o]
    /\ UNCHANGED <<call, made>>

\* heap[o].copy()
Copy(o) ==
    /\ Len(heap) < MaxObjs
    /\ LET out == copy(heap[o])
       IN  /\ heap' = IF out.kind = "ok" THEN Append(heap, Object(out)) ELSE heap
           /\ last' = [NoLast EXCEPT !.op = "copy", !.obj = o, !.kind = out.kind,
                                     !.ret = IF out.kind = "ok"
                                             THEN Len(heap) + 1 ELSE 0]
    /\ UNCHANGED <<call, made>>

\* ExtractComponent with a fault: the component replaces the pairs of the object
ExtractComponentInPlace(o, n) ==
    /\ Len(heap) < MaxObjs
    /\ \A i \in 1..Len(heap[o].pairs) : heap[o].pairs[i].rank >= n
    /\ LET out == extract_component(heap[o], n)
       IN  /\ heap' = IF out.kind = "ok" THEN [heap EXCEPT ![o] = Object(out)]
                      ELSE heap
           /\ last' = [NoLast EXCEPT !.op = "extract_component", !.obj = o,
                                     !.rank = n, !.kind = out.kind,
                                     !.ret = IF out.kind = "ok" THEN o ELSE 0]
    /\ UNCHANGED <<call, made>>

\* heap[o].extract_component(*indices), for n indices
ExtractComponent(o, n) ==
    /\ Len(heap) < MaxObjs
    /\ \A i \in 1..Len(heap[o].pairs) : heap[o].pairs[i].rank >= n
    /\ LET out == extract_component(heap[o], n)
       IN  /\ heap' = IF out.kind = "ok" THEN Append(heap, Object(out)) ELSE heap
           /\ last' = [NoLast EXCEPT !.op = "extract_component", !.obj = o,
                                     !.rank = n, !.kind = out.kind,
                                     !.ret = IF out.kind = "ok"
                                             THEN Len(heap) + 1 ELSE 0]
    /\ UNCHANGED <<call, made>>

\* heap[o].check_value_rank(rank)
CheckValueRank(o, rank) ==
    /\ last' = [NoLast EXCEPT !.op = "check_value_rank", !.obj = o, !.rank = rank,
                              !.kind = IF check_value_rank(heap[o].pairs, rank)
                                       THEN "ok" ELSE "RankError"]
    /\ UNCHANGED <<heap, call, made>>

\* heap[o] == heap[other]
Eq(o, other) ==
    /\ last' = [NoLast EXCEPT !.op = "eq", !.obj = o, !.other = other,
                              !.kind = "ok",
                              !.eq = Boundaries_eq(heap[o], heap[other])]
    /\ UNCHANGED <<heap, call, made>>

\* heap[o].set_ghost_cells(data_full)
SetGhostCells(o) ==
    /\ last' = [NoLast EXCEPT !.op = "set_ghost_cells", !.obj = o, !.kind = "ok",
                              !.log = set_ghost_cells(heap[o].pairs, 1, <<>>)]
    /\ UNCHANGED <<heap, call, made>>

\* heap[o].make_ghost_cell_setter(); fs[0] of an empty tuple is an IndexError
MakeGhostCellSetter(o) ==
    /\ last' = IF Len(heap[o].pairs) = 0
               THEN [NoLast EXCEPT !.op = "make_ghost_cell_setter", !.obj = o,
                                   !.kind = "IndexError"]
               ELSE [NoLast EXCEPT !.op = "make_ghost_cell_setter", !.obj = o,
                                   !.kind = "ok",
                                   !.fn = <<make_ghost_cell_setter(heap[o].pairs)>>]
    /\ UNCHANGED <<heap, call, made>>

\* a call of the routine make_ghost_cell_setter gave, by the solver's loop
CallGhostCellSetter ==
    /\ last.fn # <<>>
    /\ last' = [last EXCEPT !.op = "ghost_cell_setter",
                            !.log = call_wrap(last.fn[1], <<>>)]
    /\ UNCHANGED <<heap, call, made>>

\* list.pop(heap[o]), inherited from list
ListPop(o) ==
    /\ Len(heap[o].pairs) > 0
    /\ heap' = [heap EXCEPT ![o].pairs = SubSeq(@, 1, Len(@) - 1)]
    /\ last' = [NoLast EXCEPT !.op = "pop", !.obj = o, !.kind = "ok"]
    /\ UNCHANGED <<call, made>>

Next ==
    \/ \E rank \in Ranks :
         \E boundaries \in IF call.op = "none" THEN RawData
                           ELSE {ObjData(o) : o \in 1..Len(heap)} :
            \E grid \in GridArgs(heap, boundaries) :
               FromData(grid, boundaries, rank)
    \/ \E boundaries \in IF call.op = "none" THEN CtorInputs ELSE {} :
         Construct(boundaries)
    \/ \E o \in 1..Len(heap) : Copy(o)
    \/ \E o \in 1..Len(heap), n \in Ranks \ {0} : ExtractComponent(o, n)
    \/ \E o \in 1..Len(heap), rank \in Ranks : CheckValueRank(o, rank)
    \/ \E o \in 1..Len(heap), other \in 1..Len(heap) : Eq(o, other)
    \/ \E o \in 1..Len(heap) : SetGhostCells(o)
    \/ \E o \in 1..Len(heap) : MakeGhostCellSetter(o)
    \/ CallGhostCellSetter

Spec == Init /\ [][Next]_vars

\* The same operations and list.pop, which Boundaries inherits from list,
\* on the objects made by from_data(grid, "natural", rank) for the grid
\* objects "a".
NextList ==
    \/ \E rank \in Ranks :
         \E boundaries \in IF call.op = "none" THEN {StrData("natural")}
                           ELSE {ObjData(o) : o \in 1..Len(heap)} :
            \E grid \in IF call.op = "none" THEN {g \in Grids : g.id = "a"}
                        ELSE GridArgs(heap, boundaries) :
               FromData(grid, boundaries, rank)
    \/ \E o \in 1..Len(heap) : Copy(o)
    \/ \E o \in 1..Len(heap), n \in Ranks \ {0} : ExtractComponent(o, n)
    \/ \E o \in 1..Len(heap), rank \in Ranks : CheckValueRank(o, rank)
    \/ \E o \in 1..Len(heap), other \in 1..Len(heap) : Eq(o, other)
    \/ \E o \in 1..Len(heap) : SetGhostCells(o)
    \/ \E o \in 1..Len(heap) : MakeGhostCellSetter(o)
    \/ CallGhostCellSetter
    \/ \E o \in 1..Len(heap) : ListPop(o)

SpecList == Init /\ [][NextList]_vars

\* ------------------------------------------------------------------ claims
\* definitions used to state the claims
Positions(b) == 1..Len(b.pairs)

AxisOrder(b) == \A i \in Positions(b) : b.pairs[i].axis = i - 1

PeriodicityMatch(b) ==
    \A i \in Positions(b) : b.pairs[i].periodic = b.grid.periodic[i]

\* the construction invariants, "same grid" read as the constructor tests it
ValidOn(b, g) ==
    /\ Len(b.pairs) > 0
    /\ Len(b.pairs) = num_axes(g)
    /\ GridEq(b.grid, g)
    /\ \A i \in Positions(b) : GridEq(b.pairs[i].grid, b.grid)
    /\ AxisOrder(b)
    /\ PeriodicityMatch(b)

\* the grid a construction call is for
CallGrid == IF call.op = "from_data" THEN call.grid ELSE call.pairs[1].grid

AxisSeq(n) == [i \in 1..n |-> i - 1]

\* C1: an object returned by from_data(g, s, rank) or by the constructor has
\* one pair per axis of g, and the pair at index i is the pair of axis i.
C1_LengthAndOrder ==
    /\ made.kind = "ok" =>
          /\ Len(heap[made.obj].pairs) = num_axes(CallGrid)
          /\ AxisOrder(heap[made.obj])
    /\ (last.op = "from_data" /\ last.kind = "ok") =>
          /\ Len(heap[last.ret].pairs) = num_axes(last.grid)
          /\ AxisOrder(heap[last.ret])

C1_Witness ==
    /\ call.op = "from_data"
    /\ made.kind = "ok"
    /\ made.rule = "per_axis"
    /\ num_axes(call.grid) = 2
    /\ last.op = "from_data"
    /\ last.kind = "ok"

\* a list with one pair for each axis of the grid of its first pair, in
\* the order of the axes, all on that grid
PerAxisPairs(bs) ==
    /\ Len(bs) > 0
    /\ Len(bs) = num_axes(bs[1].grid)
    /\ \A i \in 1..Len(bs) : GridEq(bs[i].grid, bs[1].grid) /\ bs[i].axis = i - 1

FlagDisagrees(bs) ==
    \E i \in 1..Len(bs) : bs[i].periodic # bs[1].grid.periodic[i]

\* C2: the constructor, given a list of per-axis pairs in which a pair's
\* periodic flag disagrees with the grid's flag of its axis, raises
\* PeriodicityError.
C2_PeriodicityError ==
    (call.op = "init" /\ PerAxisPairs(call.pairs) /\ FlagDisagrees(call.pairs))
        => made.kind = "PeriodicityError"

C2_Witness ==
    /\ call.op = "init"
    /\ Len(call.pairs) = 2
    /\ PerAxisPairs(call.pairs)
    /\ call.pairs[1].periodic = call.pairs[1].grid.periodic[1]
    /\ call.pairs[2].periodic # call.pairs[1].grid.periodic[2]
    /\ made.kind = "PeriodicityError"

C4_SameObject ==
    [][(/\ last'.op = "from_data"
        /\ GridEq(heap[last'.obj].grid, last'.grid)
        /\ check_value_rank(heap[last'.obj].pairs, last'.rank))
       => (/\ last'.kind = "ok"
           /\ last'.ret = last'.obj
           /\ heap' = heap)]_vars

C4_Witness ==
    /\ last.op = "from_data"
    /\ last.kind = "ok"
    /\ last.ret = last.obj
    /\ heap[last.obj].grid # last.grid
    /\ Len(heap) = 2

\* C5: a call of the routine made by make_ghost_cell_setter calls the
\* routine of each axis once, axis 0 first and the last axis last, which is
\* the sequence of calls set_ghost_cells makes.
C5_AxisOrderOfCalls ==
    /\ last.op = "ghost_cell_setter" =>
          /\ last.log = AxisSeq(Len(heap[last.obj].pairs))
          /\ last.log = set_ghost_cells(heap[last.obj].pairs, 1, <<>>)
    /\ last.op = "set_ghost_cells" =>
          last.log = AxisSeq(Len(heap[last.obj].pairs))

C5_Witness ==
    /\ last.op = "ghost_cell_setter"
    /\ Len(heap[last.obj].pairs) = 2
    /\ last.log = <<0, 1>>

ListOps == {"pop"}

\* C6, as claimed: no operation available on a Boundaries object changes
\* its pairs, so every object alive has one pair per axis, in axis order.
C6_Original ==
    \A o \in 1..Len(heap) :
        /\ Len(heap[o].pairs) = num_axes(heap[o].grid)
        /\ AxisOrder(heap[o])

\* C6, amended: no operation that Boundaries itself defines changes the
\* pairs or the grid of an object that exists; the methods inherited from
\* list (pop is the one followed here) do change the pairs, and nothing validates them again.
C6_Amended ==
    [][last'.op \notin ListOps =>
          /\ Len(heap') >= Len(heap)
          /\ \A o \in 1..Len(heap) : heap'[o] = heap[o]]_vars

C6_Witness ==
    /\ last.op = "copy"
    /\ last.kind = "ok"
    /\ Len(heap) = 2
    /\ heap[1] = heap[2]
    /\ ValidOn(heap[1], heap[1].grid)
    /\ Len(heap[1].pairs) = 2

\* C7: b.copy() succeeds and gives another object, equal to b, on the grid
\* object of b, on which the construction invariants hold.
C7_Copy ==
    last.op = "copy" =>
        /\ last.kind = "ok"
        /\ last.ret # last.obj
        /\ last.ret \in 1..Len(heap)
        /\ Boundaries_eq(heap[last.ret], heap[last.obj])
        /\ heap[last.ret].grid = heap[last.obj].grid
        /\ ValidOn(heap[last.ret], heap[last.obj].grid)

C7_Witness ==
    /\ last.op = "copy"
    /\ last.kind = "ok"
    /\ last.obj = 1
    /\ last.ret = 2
    /\ Len(heap[2].pairs) = 2
    /\ \E i \in 1..2 : ~heap[1].pairs[i].periodic

\* what the specification e of one axis asks for on the low and high side
AskedLow(e) == IF e.t = "tuple" THEN e.lo ELSE e.s
AskedHigh(e) == IF e.t = "tuple" THEN e.hi ELSE e.s

\* C8: for a sequence, from_data reads one entry per axis when the length is
\* num_axes, reads the two entries as (low, high) only when num_axes is 1
\* and the length is 2, and fails with BCDataError for any other length.
C8_SequenceRules ==
    (call.op = "from_data" /\ call.data.t = "seq") =>
        LET q == call.data.q
            n == num_axes(call.grid)
        IN  /\ Len(q) = n =>
                 /\ made.rule = "per_axis"
                 /\ made.kind = "ok" =>
                       \A i \in 1..n :
                           /\ heap[made.obj].pairs[i].low = AskedLow(q[i])
                           /\ heap[made.obj].pairs[i].high = AskedHigh(q[i])
            /\ made.rule = "two_sides" <=> (n = 1 /\ Len(q) = 2)
            /\ (made.rule = "two_sides" /\ made.kind = "ok") =>
                 /\ heap[made.obj].pairs[1].low = q[1].s
                 /\ heap[made.obj].pairs[1].high = q[2].s
            /\ (Len(q) # n /\ ~(n = 1 /\ Len(q) = 2)) =>
                 /\ made.rule = "none"
                 /\ made.kind = "BCDataError"
                 /\ made.msg = "format"

C8_Witness ==
    /\ call.op = "from_data"
    /\ call.data.t = "seq"
    /\ made.rule = "two_sides"
    /\ made.kind = "ok"
    /\ heap[made.obj].pairs[1].low # heap[made.obj].pairs[1].high

Sentinels == {"natural", "auto_periodic_neumann", "auto_periodic_dirichlet",
              "auto_periodic_curvature"}

SentinelKind(s) ==
    IF s = "auto_periodic_dirichlet" THEN "dirichlet"
    ELSE IF s = "auto_periodic_curvature" THEN "curvature"
    ELSE "neumann"

\* C9: a sentinel keyword becomes num_axes keywords, "periodic" for a
\* periodic axis and the kind of the sentinel for any other, whatever the
\* rank; the list is then read one entry per axis.
C9_SentinelExpansion ==
    (call.op = "from_data" /\ call.data.t = "str" /\ call.data.s \in Sentinels) =>
        LET g == call.grid
            kind == SentinelKind(call.data.s)
        IN  /\ made.conv = [i \in 1..num_axes(g) |->
                              IF g.periodic[i] THEN "periodic" ELSE kind]
            /\ made.rule = "per_axis"
            /\ made.kind = "ok"
            /\ \A i \in 1..num_axes(g) :
                  /\ heap[made.obj].pairs[i].periodic = g.periodic[i]
                  /\ heap[made.obj].pairs[i].low =
                        (IF g.periodic[i] THEN "periodic" ELSE kind)

C9_Witness ==
    /\ call.op = "from_data"
    /\ call.data = StrData("auto_periodic_neumann")
    /\ call.grid.periodic = <<FALSE, TRUE>>
    /\ call.rank = 1
    /\ made.conv = <<"neumann", "periodic">>
    /\ made.kind = "ok"

\* the constructor was handed a pair whose grid is not the grid object of
\* the first pair
GivenOtherObject ==
    /\ call.op = "init"
    /\ \E i \in 1..Len(call.pairs) : call.pairs[i].grid # call.pairs[1].grid

\* the constructor was handed a pair whose grid is not equal to the grid of
\* the first pair
GivenUnequalGrid ==
    /\ call.op = "init"
    /\ \E i \in 1..Len(call.pairs) : ~GridEq(call.pairs[i].grid, call.pairs[1].grid)

\* C10, as claimed: every pair of an object refers to the grid object of the
\* collection itself, and the constructor fails with BCDataError when handed
\* pairs that are not all on one grid object.
C10_Original ==
    /\ \A o \in 1..Len(heap) :
          \A i \in Positions(heap[o]) : heap[o].pairs[i].grid = heap[o].grid
    /\ GivenOtherObject => made.kind # "ok"

\* C10, amended: the grid of every pair of an object is equal to the grid of
\* the collection, which is the grid object of its first pair; the
\* constructor never accepts a list with a pair whose grid is not equal to
\* the grid of the first pair, and fails with BCDataError unless an earlier
\* pair made it fail with PeriodicityError.
C10_Amended ==
    /\ \A o \in 1..Len(heap) :
          /\ \A i \in Positions(heap[o]) : GridEq(heap[o].pairs[i].grid, heap[o].grid)
          /\ heap[o].pairs[1].grid = heap[o].grid
    /\ GivenUnequalGrid =>
          /\ made.kind \in {"BCDataError", "PeriodicityError"}
          /\ made.kind = "PeriodicityError" =>
                \E j \in 1..Len(call.pairs) :
                    /\ call.pairs[j].periodic # call.pairs[1].grid.periodic[j]
                    /\ \A k \in 1..j : GridEq(call.pairs[k].grid, call.pairs[1].grid)

C10_Witness ==
    /\ call.op = "init"
    /\ made.kind = "ok"
    /\ Len(heap[1].pairs) = 2
    /\ heap[1].pairs[2].grid # heap[1].grid
    /\ GridEq(heap[1].pairs[2].grid, heap[1].grid)

====
